---- MODULE Spec2Model ----
(***************************************************************************)
(* Model of ddb-local's in-memory backend (src/ddb-local/src/backend.rs):  *)
(* the table catalog behind one std::sync::Mutex, composite-key derivation *)
(* through the Debug formatting of attribute values, and the substring     *)
(* based condition-expression evaluator.                                   *)
(*                                                                         *)
(* Rust strings are sequences of one-character strings, so that trim,      *)
(* contains, split, find and slicing are computed as the code computes     *)
(* them.  Option<T> is a sequence of length 0 (None) or 1 (Some).          *)
(***************************************************************************)
EXTENDS Integers, Sequences, FiniteSets, TLC

(***************************************************************************)
(* Option<T>                                                               *)
(***************************************************************************)
None == <<>>
Some(x) == <<x>>
IsSome(o) == Len(o) = 1
Unwrap(o) == o[1]

(***************************************************************************)
(* str primitives used by the evaluator (0-based byte offsets, as in Rust) *)
(***************************************************************************)
\* s[from..to], Rust half-open slice with 0-based offsets
Slice(s, from, to) == SubSeq(s, from + 1, to)

\* does pat occur in s at 0-based offset i
MatchesAt(s, pat, i) ==
    /\ i + Len(pat) <= Len(s)
    /\ \A j \in 1..Len(pat) : s[i + j] = pat[j]

\* str::find: offset of the first occurrence of pat, or None
find(s, pat) ==
    LET hits == {i \in 0..(Len(s) - Len(pat)) : MatchesAt(s, pat, i)}
    IN  IF hits = {} THEN None
        ELSE Some(CHOOSE i \in hits : \A k \in hits : i <= k)

\* str::contains
contains(s, pat) == IsSome(find(s, pat))

\* str::split: the pieces between the non-overlapping occurrences of pat,
\* found left to right
RECURSIVE split(_, _)
split(s, pat) ==
    LET at == find(s, pat)
    IN  IF ~IsSome(at) THEN <<s>>
        ELSE <<Slice(s, 0, Unwrap(at))>>
                 \o split(Slice(s, Unwrap(at) + Len(pat), Len(s)), pat)

WhiteSpace == {" ", "\t", "\n", "\r"}

\* str::trim: drop leading and trailing whitespace
RECURSIVE trim(_)
trim(s) ==
    IF s = <<>> THEN s
    ELSE IF Head(s) \in WhiteSpace THEN trim(Tail(s))
    ELSE IF s[Len(s)] \in WhiteSpace THEN trim(SubSeq(s, 1, Len(s) - 1))
    ELSE s

(***************************************************************************)
(* Literal marker texts of the evaluator                                   *)
(***************************************************************************)
AND_SEP == <<" ", "A", "N", "D", " ">>
OR_SEP == <<" ", "O", "R", " ">>
NOT_EXISTS_MARK ==
    <<"a", "t", "t", "r", "i", "b", "u", "t", "e", "_", "n", "o", "t", "_",
      "e", "x", "i", "s", "t", "s", "(">>
EXISTS_MARK ==
    <<"a", "t", "t", "r", "i", "b", "u", "t", "e", "_",
      "e", "x", "i", "s", "t", "s", "(">>
EQ_MARK == <<" ", "=", " ">>
CLOSE_PAREN == <<")">>

(***************************************************************************)
(* evaluate_condition_expression.  The result is "true", "false", or       *)
(* "panic" when an unwrap() of a missing closing parenthesis panics.       *)
(* item and values are Option<map>; a map is a function from attribute     *)
(* names to attribute values.                                              *)
(***************************************************************************)
RECURSIVE evaluate_condition_expression(_, _, _)
RECURSIVE EvalAll(_, _, _)
RECURSIVE EvalAny(_, _, _)

\* (mutant of EvalAny: every sub-expression has to be true)
EvalAnyAsAll(parts, item, values) == EvalAll(parts, item, values)

\* Iterator::any over the sub-expressions: stops at the first true
EvalAny(parts, item, values) ==
    IF parts = <<>> THEN "false"
    ELSE LET r == evaluate_condition_expression(trim(Head(parts)), item, values)
         IN  IF r = "false" THEN EvalAny(Tail(parts), item, values) ELSE r

\* (mutant of EvalAll: one true sub-expression is enough)
EvalAllAsAny(parts, item, values) == EvalAny(parts, item, values)

\* (mutant of EvalAll: only the first sub-expression is looked at)
EvalAllFirstOnly(parts, item, values) ==
    IF parts = <<>> THEN "true"
    ELSE evaluate_condition_expression(trim(Head(parts)), item, values)

\* Iterator::all over the sub-expressions: stops at the first false
EvalAll(parts, item, values) ==
    IF parts = <<>> THEN "true"
    ELSE LET r == evaluate_condition_expression(trim(Head(parts)), item, values)
         IN  IF r = "true" THEN EvalAll(Tail(parts), item, values) ELSE r

\* (mutant of CallAttrName: the marker is not skipped)
CallAttrNameWithMarker(expr, attr_start, skip) ==
    LET close == find(Slice(expr, attr_start, Len(expr)), CLOSE_PAREN)
    IN  IF ~IsSome(close) THEN None
        ELSE Some(Slice(expr, attr_start, Unwrap(close) + attr_start))

\* the attribute name of a function call whose marker (of length skip) starts
\* at attr_start: None when no ')' follows (find(')').unwrap() panics)
CallAttrName(expr, attr_start, skip) ==
    LET close == find(Slice(expr, attr_start, Len(expr)), CLOSE_PAREN)
    IN  IF ~IsSome(close) THEN None
        ELSE Some(Slice(expr, attr_start + skip, Unwrap(close) + attr_start))

BoolStr(b) == IF b THEN "true" ELSE "false"

\* (mutant of AttributeNotExists: an absent item counts as having the attribute)
AttributeNotExistsAbsentFalse(item, attr_name) ==
    IF ~IsSome(item) THEN FALSE ELSE attr_name \notin DOMAIN Unwrap(item)

\* item.map_or(true, |i| !i.contains_key(attr_name))
AttributeNotExists(item, attr_name) ==
    IF ~IsSome(item) THEN TRUE ELSE attr_name \notin DOMAIN Unwrap(item)

\* (mutant of AttributeExists: an absent item counts as having the attribute)
AttributeExistsAbsentTrue(item, attr_name) ==
    IF ~IsSome(item) THEN TRUE ELSE attr_name \in DOMAIN Unwrap(item)

\* item.map_or(false, |i| i.contains_key(attr_name))
AttributeExists(item, attr_name) ==
    IF ~IsSome(item) THEN FALSE ELSE attr_name \in DOMAIN Unwrap(item)

\* (mutant of EvalEquality: the contents are compared, not the type tags)
EvalEqualityByContent(expr, eq_pos, item, values) ==
    LET attr_name == trim(Slice(expr, 0, eq_pos))
        value_ref == trim(Slice(expr, eq_pos + 3, Len(expr)))
    IN  IF IsSome(item) /\ IsSome(values)
        THEN IF attr_name \in DOMAIN Unwrap(item)
                  /\ value_ref \in DOMAIN Unwrap(values)
             THEN BoolStr(Unwrap(item)[attr_name].val = Unwrap(values)[value_ref].val)
             ELSE "false"
        ELSE "false"

\* 'attr = :val'
EvalEquality(expr, eq_pos, item, values) ==
    LET attr_name == trim(Slice(expr, 0, eq_pos))
        value_ref == trim(Slice(expr, eq_pos + 3, Len(expr)))
    IN  IF IsSome(item) /\ IsSome(values)
        THEN IF attr_name \in DOMAIN Unwrap(item)
                  /\ value_ref \in DOMAIN Unwrap(values)
             THEN BoolStr(Unwrap(item)[attr_name] = Unwrap(values)[value_ref])
             ELSE "false"
        ELSE "false"

\* (mutant of evaluate_condition_expression: an expression that is not
\* recognised counts as true)
EvaluateFailOpen(expression, item, values) ==
    LET expr == trim(expression)
        ne == find(expr, NOT_EXISTS_MARK)
        ex == find(expr, EXISTS_MARK)
        eq == find(expr, EQ_MARK)
    IN  IF contains(expr, AND_SEP) THEN EvalAll(split(expr, AND_SEP), item, values)
        ELSE IF contains(expr, OR_SEP) THEN EvalAny(split(expr, OR_SEP), item, values)
        ELSE IF IsSome(ne) THEN
            LET name == CallAttrName(expr, Unwrap(ne), 21)
            IN  IF ~IsSome(name) THEN "panic"
                ELSE BoolStr(AttributeNotExists(item, Unwrap(name)))
        ELSE IF IsSome(ex) THEN
            LET name == CallAttrName(expr, Unwrap(ex), 17)
            IN  IF ~IsSome(name) THEN "panic"
                ELSE BoolStr(AttributeExists(item, Unwrap(name)))
        ELSE IF IsSome(eq) THEN EvalEquality(expr, Unwrap(eq), item, values)
        ELSE "true"

\* (mutant of evaluate_condition_expression: ' OR ' is looked for before
\* ' AND ')
EvaluateDisjunctionFirst(expression, item, values) ==
    LET expr == trim(expression)
        ne == find(expr, NOT_EXISTS_MARK)
        ex == find(expr, EXISTS_MARK)
        eq == find(expr, EQ_MARK)
    IN  IF contains(expr, OR_SEP) THEN EvalAny(split(expr, OR_SEP), item, values)
        ELSE IF contains(expr, AND_SEP) THEN EvalAll(split(expr, AND_SEP), item, values)
        ELSE IF IsSome(ne) THEN
            LET name == CallAttrName(expr, Unwrap(ne), 21)
            IN  IF ~IsSome(name) THEN "panic"
                ELSE BoolStr(AttributeNotExists(item, Unwrap(name)))
        ELSE IF IsSome(ex) THEN
            LET name == CallAttrName(expr, Unwrap(ex), 17)
            IN  IF ~IsSome(name) THEN "panic"
                ELSE BoolStr(AttributeExists(item, Unwrap(name)))
        ELSE IF IsSome(eq) THEN EvalEquality(expr, Unwrap(eq), item, values)
        ELSE "false"

evaluate_condition_expression(expression, item, values) ==
    LET expr == trim(expression)
        ne == find(expr, NOT_EXISTS_MARK)
        ex == find(expr, EXISTS_MARK)
        eq == find(expr, EQ_MARK)
    IN  IF contains(expr, AND_SEP) THEN EvalAll(split(expr, AND_SEP), item, values)
        ELSE IF contains(expr, OR_SEP) THEN EvalAny(split(expr, OR_SEP), item, values)
        ELSE IF IsSome(ne) THEN
            LET name == CallAttrName(expr, Unwrap(ne), 21)
            IN  IF ~IsSome(name) THEN "panic"
                ELSE BoolStr(AttributeNotExists(item, Unwrap(name)))
        ELSE IF IsSome(ex) THEN
            LET name == CallAttrName(expr, Unwrap(ex), 17)
            IN  IF ~IsSome(name) THEN "panic"
                ELSE BoolStr(AttributeExists(item, Unwrap(name)))
        ELSE IF IsSome(eq) THEN EvalEquality(expr, Unwrap(eq), item, values)
        ELSE "false"

(***************************************************************************)
(* Attribute values (model::AttributeValue): tagged S(String), N(String)   *)
(* and M(HashMap<String, AttributeValue>).  Equality is structural.        *)
(***************************************************************************)
S(str) == [tag |-> "S", val |-> str]
N(str) == [tag |-> "N", val |-> str]
M(map) == [tag |-> "M", val |-> map]

\* <str as Debug>::fmt: the text in double quotes, '"' and '\' escaped
RECURSIVE EscapeDebug(_)
EscapeDebug(str) ==
    IF str = <<>> THEN <<>>
    ELSE (IF Head(str) \in {"\"", "\\"} THEN <<"\\", Head(str)>> ELSE <<Head(str)>>)
             \o EscapeDebug(Tail(str))

DebugStr(str) == <<"\"">> \o EscapeDebug(str) \o <<"\"">>

\* #[derive(Debug)] on AttributeValue: Tag(<payload:?>).  A HashMap prints its
\* entries as {"k": v, ...} in the iteration order of that map instance;
\* hash_order lists the attribute names in the order the instance iterates.
RECURSIVE DebugValue(_, _)
RECURSIVE DebugEntries(_, _, _)
DebugEntries(map, names, hash_order) ==
    IF names = <<>> THEN <<>>
    ELSE DebugStr(Head(names)) \o <<":", " ">>
             \o DebugValue(map[Head(names)], hash_order)
             \o (IF Len(names) > 1 THEN <<",", " ">> ELSE <<>>)
             \o DebugEntries(map, Tail(names), hash_order)

DebugValue(v, hash_order) ==
    IF v.tag = "M"
    THEN LET InMap(k) == k \in DOMAIN v.val
         IN  <<"M", "(", "{">>
                 \o DebugEntries(v.val, SelectSeq(hash_order, InMap), hash_order)
                 \o <<"}", ")">>
    ELSE <<v.tag, "(">> \o DebugStr(v.val) \o <<")">>

(***************************************************************************)
(* TableStore                                                              *)
(***************************************************************************)
\* TableStore { schema, items }
TableStore(schema, items) == [schema |-> schema, items |-> items]

\* the composite key of the first n schema attributes; None when one of them
\* is absent from the item (item.get(key).unwrap() panics)
RECURSIVE KeyPrefix(_, _, _, _)
KeyPrefix(schema, n, item, hash_order) ==
    IF n = 0 THEN Some(<<>>)
    ELSE LET rest == KeyPrefix(schema, n - 1, item, hash_order)
         IN  IF ~IsSome(rest) \/ schema[n] \notin DOMAIN item THEN None
             ELSE Some(Append(Unwrap(rest), DebugValue(item[schema[n]], hash_order)))

\* (mutant of key_from_item: a schema attribute the item lacks is left out of
\* the key)
KeyFromItemSkippingMissing(table_store, item, hash_order) ==
    LET Present(a) == a \in DOMAIN item
        schema == SelectSeq(table_store.schema, Present)
    IN  KeyPrefix(schema, Len(schema), item, hash_order)

\* TableStore::key_from_item
key_from_item(table_store, item, hash_order) ==
    KeyPrefix(table_store.schema, Len(table_store.schema), item, hash_order)

\* HashMap::get
MapGet(map, k) == IF k \in DOMAIN map THEN Some(map[k]) ELSE None

\* HashMap::insert (insert or replace)
MapInsert(map, k, v) == [x \in DOMAIN map \cup {k} |-> IF x = k THEN v ELSE map[x]]

(***************************************************************************)
(* Requests and results                                                    *)
(***************************************************************************)
\* op is "get_item", "put_item", "create_table" (the DynamoDb trait method) or
\* "create_table_direct" (the inherent helper InMemoryDynamoDb::create_table).
\* item holds GetItemInput.key or PutItemInput.item; hash_order is the iteration
\* order of the HashMap instances the request carries.
Request(op, table_name, item, cond, values, key_schema, hash_order) ==
    [op |-> op, table_name |-> table_name, item |-> item,
     condition_expression |-> cond, expression_attribute_values |-> values,
     key_schema |-> key_schema, hash_order |-> hash_order]

\* what a call yields: Ok (with GetItemOutput.item), one of the declared
\* errors, or Panic (the call unwinds and returns no value)
Result(kind, item) == [kind |-> kind, item |-> item]
Ok(item) == Result("Ok", item)
ResourceNotFound == Result("ResourceNotFound", None)
ConditionalCheckFailed == Result("ConditionalCheckFailed", None)
ResourceInUse == Result("ResourceInUse", None)
Panic == Result("Panic", None)
\* the outcome of an operation the backend does not implement
Unsupported == Result("Unsupported", None)
NoResult == Result("none", None)

\* TableRef::get_mut
get_mut(st, table_name) == MapGet(st, table_name)

(***************************************************************************)
(* The bodies of the operations, run with the mutex held, as functions of  *)
(* the catalog st (HashMap<String, TableStore>) and the request r.         *)
(***************************************************************************)
\* (mutant of GetItemBody: a missing table reads as an empty one)
GetItemBodyMissingTableEmpty(st, r) ==
    LET table == get_mut(st, r.table_name)
    IN  IF ~IsSome(table) THEN Ok(None)
        ELSE LET key == key_from_item(Unwrap(table), r.item, r.hash_order)
             IN  IF ~IsSome(key) THEN Panic
                 ELSE Ok(MapGet(Unwrap(table).items, Unwrap(key)))

\* (mutant of GetItemBody: a missing item is reported as an error)
GetItemBodyAbsentIsError(st, r) ==
    LET table == get_mut(st, r.table_name)
    IN  IF ~IsSome(table) THEN ResourceNotFound
        ELSE LET key == key_from_item(Unwrap(table), r.item, r.hash_order)
             IN  IF ~IsSome(key) THEN Panic
                 ELSE IF Unwrap(key) \in DOMAIN Unwrap(table).items
                      THEN Ok(Some(Unwrap(table).items[Unwrap(key)]))
                      ELSE ResourceNotFound

\* get_item, after the lock is taken
GetItemBody(st, r) ==
    LET table == get_mut(st, r.table_name)
    IN  IF ~IsSome(table) THEN ResourceNotFound
        ELSE LET key == key_from_item(Unwrap(table), r.item, r.hash_order)
             IN  IF ~IsSome(key) THEN Panic
                 ELSE Ok(MapGet(Unwrap(table).items, Unwrap(key)))

\* (mutant of PutItemCheck: the outcome of the condition is not looked at)
PutItemCheckIgnoringCondition(st, r) ==
    IF ~IsSome(get_mut(st, r.table_name)) THEN ResourceNotFound ELSE NoResult

\* (mutant of PutItemCheck: the condition is evaluated, against no item, before
\* the table is looked up)
PutItemCheckConditionFirst(st, r) ==
    LET table == get_mut(st, r.table_name)
        early == IF IsSome(r.condition_expression)
                 THEN evaluate_condition_expression(
                          Unwrap(r.condition_expression), None,
                          r.expression_attribute_values)
                 ELSE "true"
    IN  IF ~IsSome(table)
        THEN IF early = "panic" THEN Panic
             ELSE IF early = "false" THEN ConditionalCheckFailed
             ELSE ResourceNotFound
        ELSE IF ~IsSome(r.condition_expression) THEN NoResult
        ELSE LET key == key_from_item(Unwrap(table), r.item, r.hash_order)
             IN  IF ~IsSome(key) THEN Panic
                 ELSE LET existing_item == MapGet(Unwrap(table).items, Unwrap(key))
                          condition_met ==
                              evaluate_condition_expression(
                                  Unwrap(r.condition_expression), existing_item,
                                  r.expression_attribute_values)
                      IN  IF condition_met = "panic" THEN Panic
                          ELSE IF condition_met = "false" THEN ConditionalCheckFailed
                          ELSE NoResult

\* (mutant of PutItemCheck: the condition is evaluated against the incoming item)
PutItemCheckAgainstIncoming(st, r) ==
    LET table == get_mut(st, r.table_name)
    IN  IF ~IsSome(table) THEN ResourceNotFound
        ELSE IF ~IsSome(r.condition_expression) THEN NoResult
        ELSE LET key == key_from_item(Unwrap(table), r.item, r.hash_order)
             IN  IF ~IsSome(key) THEN Panic
                 ELSE LET condition_met ==
                              evaluate_condition_expression(
                                  Unwrap(r.condition_expression), Some(r.item),
                                  r.expression_attribute_values)
                      IN  IF condition_met = "panic" THEN Panic
                          ELSE IF condition_met = "false" THEN ConditionalCheckFailed
                          ELSE NoResult

\* put_item up to the condition check: the error it returns, Panic, or
\* NoResult when the put goes on to the insert
PutItemCheck(st, r) ==
    LET table == get_mut(st, r.table_name)
    IN  IF ~IsSome(table) THEN ResourceNotFound
        ELSE IF ~IsSome(r.condition_expression) THEN NoResult
        ELSE LET key == key_from_item(Unwrap(table), r.item, r.hash_order)
             IN  IF ~IsSome(key) THEN Panic
                 ELSE LET existing_item == MapGet(Unwrap(table).items, Unwrap(key))
                          condition_met ==
                              evaluate_condition_expression(
                                  Unwrap(r.condition_expression), existing_item,
                                  r.expression_attribute_values)
                      IN  IF condition_met = "panic" THEN Panic
                          ELSE IF condition_met = "false" THEN ConditionalCheckFailed
                          ELSE NoResult

\* (mutant of PutItemInsert: the new item is merged into the stored one)
PutItemInsertMerging(st, r) ==
    LET table == st[r.table_name]
        key == key_from_item(table, r.item, r.hash_order)
        prior == MapGet(table.items, Unwrap(key))
        merged == IF IsSome(prior) THEN r.item @@ Unwrap(prior) ELSE r.item
    IN  IF ~IsSome(key) THEN None
        ELSE Some(MapInsert(st, r.table_name,
                            TableStore(table.schema,
                                       MapInsert(table.items, Unwrap(key), merged))))

\* (mutant of PutItemInsert: the table's items are rebuilt from the new item)
PutItemInsertClearing(st, r) ==
    LET table == st[r.table_name]
        key == key_from_item(table, r.item, r.hash_order)
    IN  IF ~IsSome(key) THEN None
        ELSE Some(MapInsert(st, r.table_name,
                            TableStore(table.schema, Unwrap(key) :> r.item)))

\* put_item's insert: the catalog after table_store.items.insert(key, item), or
\* None when key_from_item panics.  The table reference was taken before the
\* check, so the table is present.
PutItemInsert(st, r) ==
    LET table == st[r.table_name]
        key == key_from_item(table, r.item, r.hash_order)
    IN  IF ~IsSome(key) THEN None
        ELSE Some(MapInsert(st, r.table_name,
                            TableStore(table.schema,
                                       MapInsert(table.items, Unwrap(key), r.item))))

\* (mutant of EntryVacant: the entry is taken for vacant without a lookup)
EntryAlwaysVacant(st, table_name) == TRUE

\* HashMap::entry: is the entry for the table name vacant
EntryVacant(st, table_name) == table_name \notin DOMAIN st

\* (mutant of VacantInsert: the new table is put into a fresh catalog)
VacantInsertIntoFreshCatalog(st, r) ==
    r.table_name :> TableStore(r.key_schema, <<>>)

\* Entry::Vacant(v) => v.insert(TableStore { schema, items: HashMap::new() })
VacantInsert(st, r) ==
    MapInsert(st, r.table_name, TableStore(r.key_schema, <<>>))

(***************************************************************************)
(* Bounded inputs                                                          *)
(***************************************************************************)
NumCallers == 4
Callers == 1..NumCallers

id == <<"i", "d">>
sk == <<"s", "k">>
total == <<"t", "o", "t", "a", "l">>
xk == <<"x">>
yk == <<"y">>

ValA == S(<<"A">>)
ValC == S(<<"c">>)
Val5 == N(<<"5">>)
Val9 == N(<<"9">>)
Val7 == N(<<"7">>)
\* a map-typed value with two entries
ValM == M(xk :> S(<<"1">>) @@ yk :> S(<<"2">>))

\* the two orders in which a HashMap instance holding x and y can iterate
OrderXY == <<xk, yk>>
OrderYX == <<yk, xk>>
HashOrders == {OrderXY, OrderYX}

ItemA5 == id :> ValA @@ total :> Val5
ItemA9 == id :> ValA @@ total :> Val9
ItemA7 == id :> ValA @@ total :> Val7
ItemAc == id :> ValA @@ sk :> ValC
ItemM == id :> ValM @@ total :> Val5
ItemNoId == total :> Val5
KeyA == id :> ValA
KeyAc == id :> ValA @@ sk :> ValC
KeyM == id :> ValM
KeyNoId == sk :> ValC

\* the iteration orders a request carrying this item can have: one when the
\* item holds no map with several entries
OrdersOf(item) ==
    IF \E a \in DOMAIN item : item[a].tag = "M" THEN HashOrders ELSE {OrderXY}

SchemaId == <<id>>
SchemaIdSk == <<id, sk>>
Schemas == {SchemaId, SchemaIdSk}

CondNotExistsId ==
    NOT_EXISTS_MARK \o id \o CLOSE_PAREN
CondNotExistsSk ==
    NOT_EXISTS_MARK \o sk \o CLOSE_PAREN
CondNotExistsIdAndSk ==
    NOT_EXISTS_MARK \o id \o CLOSE_PAREN \o AND_SEP \o NOT_EXISTS_MARK \o sk \o CLOSE_PAREN
CondNotExistsTotalAndSk ==
    NOT_EXISTS_MARK \o total \o CLOSE_PAREN \o AND_SEP \o NOT_EXISTS_MARK \o sk \o CLOSE_PAREN
CondNotExistsTotal ==
    NOT_EXISTS_MARK \o total \o CLOSE_PAREN
CondExistsTotal ==
    EXISTS_MARK \o total \o CLOSE_PAREN
\* a function call without its closing parenthesis
CondUnclosed == EXISTS_MARK \o id
\* 'total = :old' and the placeholder values that give :old
old == <<":", "o", "l", "d">>
CondTotalEqOld == total \o EQ_MARK \o old
OldIs5 == old :> Val5
\* :old given as the string "5", and a map that gives another placeholder
OldIsString5 == old :> S(<<"5">>)
OtherIs5 == <<":", "n", "e", "w">> :> Val5
EqValues == {None, Some(OldIs5), Some(OldIsString5), Some(OtherIs5)}
\* expressions of no recognised form: the empty one, a bare attribute name and
\* a comparison other than equality
CondEmpty == <<>>
CondBareName == total
CondTotalGreaterOld == total \o <<" ", ">", " ">> \o old
UnrecognisedConditions == {CondEmpty, CondBareName, CondTotalGreaterOld}

Conditions ==
    {None, Some(CondNotExistsId), Some(CondNotExistsSk), Some(CondNotExistsIdAndSk),
     Some(CondNotExistsTotalAndSk), Some(CondUnclosed),
     Some(CondNotExistsTotal), Some(CondExistsTotal)}

GetReq(t, key, ord) == Request("get_item", t, key, None, None, <<>>, ord)
PutReq(t, item, cond, ord) == Request("put_item", t, item, cond, None, <<>>, ord)
CreateReq(t, schema) == Request("create_table", t, <<>>, None, None, schema, OrderXY)
DirectCreateReq(t, schema) ==
    Request("create_table_direct", t, <<>>, None, None, schema, OrderXY)
NoRequest == Request("none", "", <<>>, None, None, <<>>, OrderXY)
UpdateReq(t, key) == Request("update_item", t, key, None, None, <<>>, OrderXY)

\* the calls made against the main table
OrdersRequests ==
    {CreateReq("orders", sch) : sch \in Schemas}
    \cup {DirectCreateReq("orders", sch) : sch \in Schemas}
    \cup UNION {{GetReq("orders", k, o) : o \in OrdersOf(k)} :
                    k \in {KeyA, KeyAc, KeyM, KeyNoId}}
    \cup UNION {{PutReq("orders", it, c, o) : o \in OrdersOf(it), c \in Conditions} :
                    it \in {ItemA5, ItemA9, ItemAc, ItemM, ItemNoId}}
    \cup {Request("put_item", "orders", ItemA9, Some(CondTotalEqOld), v, <<>>, OrderXY) :
              v \in EqValues}
    \cup {Request("put_item", "orders", ItemA9, Some(c), Some(OldIs5), <<>>, OrderXY) :
              c \in UnrecognisedConditions}

\* the calls made against a second table
UsersRequests ==
    {CreateReq("users", SchemaId), DirectCreateReq("users", SchemaId),
     GetReq("users", KeyA, OrderXY),
     PutReq("users", ItemA5, None, OrderXY),
     PutReq("users", ItemA9, Some(CondNotExistsId), OrderXY)}

Requests == OrdersRequests \cup UsersRequests

(***************************************************************************)
(* State                                                                   *)
(***************************************************************************)
VARIABLES
    store,      \* the catalog inside the Mutex: table name -> TableStore
    poisoned,   \* the Mutex's poison flag
    lock,       \* the caller holding the MutexGuard, 0 when the mutex is free
    pc,         \* where each caller is in its call
    req,        \* the request of each caller's call in progress
    res,        \* the outcome of each caller's call, once decided
    pre         \* the catalog as it was when the caller took the lock

vars == <<store, poisoned, lock, pc, req, res, pre>>

\* InMemoryDynamoDb::new(): an empty catalog behind an unlocked, unpoisoned mutex
Init ==
    /\ store = <<>>
    /\ poisoned = FALSE
    /\ lock = 0
    /\ pc = [p \in Callers |-> "idle"]
    /\ req = [p \in Callers |-> NoRequest]
    /\ res = [p \in Callers |-> NoResult]
    /\ pre = [p \in Callers |-> <<>>]

\* (mutant of self_store: clone() copies the map, and only the first handle
\* holds the catalog the calls write to)
OwnCopyOfStore(p) == IF p = 1 THEN store ELSE <<>>

\* self.store as caller p's handle reaches it: every handle is a clone of the
\* one InMemoryDynamoDb, and the derived Clone clones the Arc, not the map, so
\* every handle reaches the one catalog
self_store(p) == store

\* (mutant of LockFree: lock() does not wait for the holder)
LockNeverBlocks == TRUE

\* Mutex::lock: blocks until the mutex is free
LockFree == lock = 0

\* the call ends: its outcome is decided, the guard is still held
Return(p, result) ==
    /\ res' = [res EXCEPT ![p] = result]
    /\ pc' = [pc EXCEPT ![p] = "ret"]

\* self.store.lock().unwrap() at the start of a call with request r: on a
\* poisoned mutex lock() yields Err(PoisonError(guard)) and unwrap() panics
Lock(p, r) ==
    /\ pc[p] = "idle"
    /\ LockFree
    /\ lock' = p
    /\ req' = [req EXCEPT ![p] = r]
    /\ pre' = [pre EXCEPT ![p] = self_store(p)]
    /\ IF poisoned
       THEN Return(p, Panic)
       ELSE /\ pc' = [pc EXCEPT ![p] = "body"]
            /\ res' = [res EXCEPT ![p] = NoResult]
    /\ UNCHANGED <<store, poisoned>>

\* a caller starts any call.  Nothing reads the request before the lock is
\* taken, so the request is chosen in the step that takes the lock.
Call(p) == \E r \in Requests : Lock(p, r)

\* get_item with the lock held
GetItem(p) ==
    /\ pc[p] = "body"
    /\ req[p].op = "get_item"
    /\ Return(p, GetItemBody(self_store(p), req[p]))
    /\ UNCHANGED <<store, poisoned, lock, req, pre>>

\* put_item from the table lookup to the condition check
PutItemCheckStep(p) ==
    /\ pc[p] = "body"
    /\ req[p].op = "put_item"
    /\ LET out == PutItemCheck(self_store(p), req[p])
       IN  IF out = NoResult
           THEN /\ pc' = [pc EXCEPT ![p] = "insert"]
                /\ res' = res
           ELSE Return(p, out)
    /\ UNCHANGED <<store, poisoned, lock, req, pre>>

\* put_item's key derivation and insert
PutItemInsertStep(p) ==
    /\ pc[p] = "insert"
    /\ req[p].op = "put_item"
    /\ LET after == PutItemInsert(self_store(p), req[p])
       IN  IF IsSome(after)
           THEN /\ store' = Unwrap(after)
                /\ Return(p, Ok(None))
           ELSE /\ store' = store
                /\ Return(p, Panic)
    /\ UNCHANGED <<poisoned, lock, req, pre>>

\* create_table (trait method): the entry lookup
CreateTableEntry(p) ==
    /\ pc[p] = "body"
    /\ req[p].op = "create_table"
    /\ IF EntryVacant(self_store(p), req[p].table_name)
       THEN /\ pc' = [pc EXCEPT ![p] = "insert"]
            /\ res' = res
       ELSE Return(p, ResourceInUse)
    /\ UNCHANGED <<store, poisoned, lock, req, pre>>

\* create_table (trait method): the insert into the vacant entry
CreateTableInsert(p) ==
    /\ pc[p] = "insert"
    /\ req[p].op = "create_table"
    /\ store' = VacantInsert(self_store(p), req[p])
    /\ Return(p, Ok(None))
    /\ UNCHANGED <<poisoned, lock, req, pre>>

\* (mutant of DirectCreateEntry: the helper inserts without looking at the entry)
DirectCreateEntryOverwriting(p) ==
    /\ pc[p] = "body"
    /\ req[p].op = "create_table_direct"
    /\ pc' = [pc EXCEPT ![p] = "insert"]
    /\ UNCHANGED <<store, poisoned, lock, req, res, pre>>

\* the inherent create_table helper: the entry lookup, panicking when occupied
DirectCreateEntry(p) ==
    /\ pc[p] = "body"
    /\ req[p].op = "create_table_direct"
    /\ IF EntryVacant(self_store(p), req[p].table_name)
       THEN /\ pc' = [pc EXCEPT ![p] = "insert"]
            /\ res' = res
       ELSE Return(p, Panic)
    /\ UNCHANGED <<store, poisoned, lock, req, pre>>

\* the inherent create_table helper: the insert into the vacant entry
DirectCreateInsert(p) ==
    /\ pc[p] = "insert"
    /\ req[p].op = "create_table_direct"
    /\ store' = VacantInsert(self_store(p), req[p])
    /\ Return(p, Ok(None))
    /\ UNCHANGED <<poisoned, lock, req, pre>>

\* (mutant of DropGuard: an error return is taken for an unwinding)
DropGuardPoisoningOnError(p) ==
    /\ lock' = IF lock = p THEN 0 ELSE lock
    /\ poisoned' = (poisoned \/ res[p].kind # "Ok")

\* (mutant of DropGuard: an early error return keeps the guard)
DropGuardOnSuccessOnly(p) ==
    /\ lock' = IF lock = p /\ res[p].kind \in {"Ok", "Panic"} THEN 0 ELSE lock
    /\ poisoned' = (poisoned \/ res[p].kind = "Panic")

\* the MutexGuard is dropped: the mutex is released, and poisoned when the
\* guard is dropped by a panic's unwinding
DropGuard(p) ==
    /\ lock' = IF lock = p THEN 0 ELSE lock
    /\ poisoned' = (poisoned \/ res[p].kind = "Panic")

\* the call is over; the caller is ready for its next call
Unlock(p) ==
    /\ pc[p] = "ret"
    /\ DropGuard(p)
    /\ pc' = [pc EXCEPT ![p] = "idle"]
    /\ req' = [req EXCEPT ![p] = NoRequest]
    /\ res' = [res EXCEPT ![p] = NoResult]
    /\ pre' = [pre EXCEPT ![p] = <<>>]
    /\ UNCHANGED store

Step(p) ==
    \/ GetItem(p)
    \/ PutItemCheckStep(p)
    \/ PutItemInsertStep(p)
    \/ CreateTableEntry(p)
    \/ CreateTableInsert(p)
    \/ DirectCreateEntry(p)
    \/ DirectCreateInsert(p)

Next ==
    \/ \E p \in Callers : Call(p)
    \/ \E p \in Callers : Step(p)
    \/ \E p \in Callers : Unlock(p)

Spec == Init /\ [][Next]_vars
(***************************************************************************)
(* A race: every caller makes one call and keeps its outcome.  The calls   *)
(* are create_table calls for one table name and puts conditioned on       *)
(* attribute_not_exists(id); the puts are started once the table exists,   *)
(* so that they start with no item at their keys.                          *)
(***************************************************************************)
RaceRequests ==
    {CreateReq("orders", sch) : sch \in Schemas}
    \cup UNION {{PutReq("orders", it, Some(CondNotExistsId), o) : o \in OrdersOf(it)} :
                    it \in {ItemA5, ItemA9, ItemAc, ItemM}}

RaceCall(p) ==
    \E r \in RaceRequests :
        /\ r.op = "put_item" => r.table_name \in DOMAIN store
        /\ Lock(p, r)

\* the call is over; the caller keeps the request it made and its outcome
Finish(p) ==
    /\ pc[p] = "ret"
    /\ DropGuard(p)
    /\ pc' = [pc EXCEPT ![p] = "done"]
    /\ pre' = [pre EXCEPT ![p] = <<>>]
    /\ UNCHANGED <<store, req, res>>

NextRace ==
    \/ \E p \in Callers : RaceCall(p)
    \/ \E p \in Callers : PutItemCheckStep(p)
    \/ \E p \in Callers : PutItemInsertStep(p)
    \/ \E p \in Callers : CreateTableEntry(p)
    \/ \E p \in Callers : CreateTableInsert(p)
    \/ \E p \in Callers : Finish(p)

SpecRace == Init /\ [][NextRace]_vars

(***************************************************************************)
(* One call per caller, outcomes kept: the callers hold handles to the one *)
(* backend; each makes one call and keeps its request and its outcome.     *)
(* The calls create the table, are update_item calls, write the first      *)
(* item {id:A,total:5} (conditioned on the key being free, so it is        *)
(* written once), read it, and put over it conditioned on 'total = :old'   *)
(* with :old = 5; the conditioned puts are started once an item is stored. *)
(***************************************************************************)
CasPutReq(item) ==
    Request("put_item", "orders", item, Some(CondTotalEqOld), Some(OldIs5), <<>>, OrderXY)

CasRequests == {CasPutReq(ItemA9), CasPutReq(ItemA7)}

OnceRequests ==
    {CreateReq("orders", SchemaId),
     PutReq("orders", ItemA5, Some(CondNotExistsId), OrderXY),
     GetReq("orders", KeyA, OrderXY)}
    \cup CasRequests

UpdateRequests ==
    {UpdateReq("orders", k) : k \in {KeyA, KeyNoId}}

\* (mutant of UpdateItemBody: the call succeeds without doing anything)
UpdateItemBodyNoOp(st, r) == Ok(None)

\* update_item: DynamoDb declares it and build_service! routes to it, but
\* InMemoryDynamoDb has no body for it; the call is answered at once with the
\* 'unsupported operation' outcome, whatever the catalog and the request
UpdateItemBody(st, r) == Unsupported

\* a caller makes an update_item call: it does not take the lock
UpdateItem(p) ==
    \E r \in UpdateRequests :
        /\ pc[p] = "idle"
        /\ req' = [req EXCEPT ![p] = r]
        /\ pre' = [pre EXCEPT ![p] = store]
        /\ Return(p, UpdateItemBody(store, r))
        /\ UNCHANGED <<store, poisoned, lock>>

OnceCall(p) ==
    \E r \in OnceRequests :
        /\ r \in CasRequests =>
               /\ r.table_name \in DOMAIN store
               /\ store[r.table_name].items # <<>>
        /\ Lock(p, r)

NextOnce ==
    \/ \E p \in Callers : OnceCall(p)
    \/ \E p \in Callers : UpdateItem(p)
    \/ \E p \in Callers : GetItem(p)
    \/ \E p \in Callers : PutItemCheckStep(p)
    \/ \E p \in Callers : PutItemInsertStep(p)
    \/ \E p \in Callers : CreateTableEntry(p)
    \/ \E p \in Callers : CreateTableInsert(p)
    \/ \E p \in Callers : Finish(p)

SpecOnce == Init /\ [][NextOnce]_vars

(***************************************************************************)
(* The evaluator alone: an expression made of one to MaxConjuncts          *)
(* predicates joined by ' AND ', of two to MaxConjuncts predicates joined  *)
(* by ' OR ', or of three predicates with both connectives, a current item *)
(* (or none) and placeholder values (or none) are drawn at the start, and  *)
(* one step evaluates the expression.  The first caller's req and res hold *)
(* the input and the result.                                               *)
(***************************************************************************)
MaxConjuncts == 3

CondExistsId ==
    EXISTS_MARK \o id \o CLOSE_PAREN

\* the predicates joined by connectives: function calls, one of them padded
\* with blanks, an equality, a text that is no predicate, and a call without
\* its ')'
Atoms ==
    {CondNotExistsId, CondExistsTotal, <<" ">> \o CondNotExistsSk \o <<" ">>,
     CondTotalEqOld, <<"x">>, CondUnclosed}

\* the predicates evaluated on their own: these, and both function calls on
\* every attribute, key or not
SingleAtoms ==
    Atoms \cup {NOT_EXISTS_MARK \o a \o CLOSE_PAREN : a \in {id, sk, total}}
          \cup {EXISTS_MARK \o a \o CLOSE_PAREN : a \in {id, sk, total}}

\* how the predicates are put together: "and" is A AND B AND .., "or" is
\* A OR B OR .., "or_and" is A OR B AND C, "and_or" is A AND B OR C
PartsOf(shape) ==
    IF shape = "and"
    THEN [1..1 -> SingleAtoms] \cup UNION {[1..n -> Atoms] : n \in 2..MaxConjuncts}
    ELSE IF shape = "or" THEN UNION {[1..n -> Atoms] : n \in 2..MaxConjuncts}
    ELSE [1..3 -> Atoms]

RECURSIVE Join(_, _)
Join(parts, sep) ==
    IF Len(parts) = 1 THEN Head(parts)
    ELSE Head(parts) \o sep \o Join(Tail(parts), sep)

Expression(shape, parts) ==
    IF shape = "and" THEN Join(parts, AND_SEP)
    ELSE IF shape = "or" THEN Join(parts, OR_SEP)
    ELSE IF shape = "or_and" THEN parts[1] \o OR_SEP \o parts[2] \o AND_SEP \o parts[3]
    ELSE parts[1] \o AND_SEP \o parts[2] \o OR_SEP \o parts[3]

EvalInputs ==
    UNION {{[op |-> "evaluate", shape |-> shape, parts |-> parts,
             expression |-> Expression(shape, parts),
             item |-> item, values |-> values] :
               parts \in PartsOf(shape),
               item \in {None, Some(ItemA5), Some(ItemAc)},
               values \in {None, Some(OldIs5)}} :
           shape \in {"and", "or", "or_and", "and_or"}}

EvalInit ==
    /\ store = <<>>
    /\ poisoned = FALSE
    /\ lock = 0
    /\ pc = [p \in Callers |-> "idle"]
    /\ req \in {[p \in Callers |-> IF p = 1 THEN in ELSE NoRequest] : in \in EvalInputs}
    /\ res = [p \in Callers |-> NoResult]
    /\ pre = [p \in Callers |-> <<>>]

\* evaluate_condition_expression(expression, item, expression_attribute_values)
Evaluate ==
    /\ pc[1] = "idle"
    /\ req[1].op = "evaluate"
    /\ res' = [res EXCEPT ![1] =
                   evaluate_condition_expression(req[1].expression, req[1].item,
                                                 req[1].values)]
    /\ pc' = [pc EXCEPT ![1] = "evaluated"]
    /\ UNCHANGED <<store, poisoned, lock, req, pre>>

SpecEval == EvalInit /\ [][Evaluate]_vars

(***************************************************************************)
(* Contention: callers invoke calls at any time and wait for the mutex.    *)
(* An invoked call that has not yet taken the lock is a caller at "idle"   *)
(* with its request set.  The mutex is handed to every waiting caller in   *)
(* the end (strong fairness of the acquisition), and a caller holding the  *)
(* guard keeps running (weak fairness of its steps): the bodies contain no *)
(* await and no loop.                                                      *)
(***************************************************************************)
NumWaiters == 2
Waiters == 1..NumWaiters

LiveRequests ==
    {CreateReq("orders", SchemaId),
     DirectCreateReq("orders", SchemaId),
     PutReq("orders", ItemA5, None, OrderXY),
     PutReq("orders", ItemA5, Some(CondBareName), OrderXY),
     PutReq("orders", ItemNoId, None, OrderXY),
     GetReq("orders", KeyA, OrderXY)}

\* a call is invoked: nothing of the store is touched before lock()
Invoke(p) ==
    /\ pc[p] = "idle"
    /\ req[p] = NoRequest
    /\ \E r \in LiveRequests : req' = [req EXCEPT ![p] = r]
    /\ UNCHANGED <<store, poisoned, lock, pc, res, pre>>

\* self.store.lock() of the invoked call returns
Acquire(p) ==
    /\ req[p] # NoRequest
    /\ Lock(p, req[p])

NextLive ==
    \/ \E p \in Waiters : Invoke(p)
    \/ \E p \in Waiters : Acquire(p)
    \/ \E p \in Waiters : Step(p)
    \/ \E p \in Waiters : Unlock(p)

SpecLive ==
    /\ Init
    /\ [][NextLive]_vars
    /\ \A p \in Waiters : SF_vars(Acquire(p))
    /\ \A p \in Waiters : WF_vars(Step(p) \/ Unlock(p))

(***************************************************************************)
(* Properties.                                                             *)
(*                                                                         *)
(* A call's outcome is read in the state where it is decided and the guard *)
(* is still held (pc = "ret"); pre is the catalog the call found when it   *)
(* took the lock.  A call that panics unwinds and returns no value, so a   *)
(* statement about the value a call returns speaks of the calls that       *)
(* return one (Returned); statements about the catalog hold of every call. *)
(***************************************************************************)
AtReturn(p) == pc[p] = "ret"
InCriticalSection(p) == pc[p] \in {"body", "insert", "ret"}
Returned(p) ==
    res[p].kind \in {"Ok", "ResourceNotFound", "ConditionalCheckFailed", "ResourceInUse"}

\* the table exists in st and the request's item yields a composite key there
HasKey(st, r) ==
    /\ r.table_name \in DOMAIN st
    /\ IsSome(key_from_item(st[r.table_name], r.item, r.hash_order))

\* the composite key of the request's item in its table
KeyOf(st, r) == Unwrap(key_from_item(st[r.table_name], r.item, r.hash_order))

\* the item stored in st at the composite key of the request's item, if any
StoredAt(st, r) == MapGet(st[r.table_name].items, KeyOf(st, r))

\* the callers of the race whose put on composite key k has returned
ReturnedPuts(k) ==
    {p \in Callers : /\ pc[p] = "done" /\ Returned(p)
                     /\ req[p].op = "put_item"
                     /\ HasKey(store, req[p])
                     /\ KeyOf(store, req[p]) = k}

\* C1 (race): of the conditional puts racing on one table, one composite key
\* and the condition attribute_not_exists(id), with no item at the key at the
\* start, exactly one succeeds and every other fails with
\* ConditionalCheckFailed; there are never two successful writes.
C1_OneRacingPutWins ==
    \A p \in Callers :
        pc[p] = "done" /\ Returned(p) /\ req[p].op = "put_item"
        => LET racers == ReturnedPuts(KeyOf(store, req[p]))
           IN  /\ Cardinality({q \in racers : res[q] = Ok(None)}) = 1
               /\ \A q \in racers : res[q] \in {Ok(None), ConditionalCheckFailed}

\* C1 witness: two puts of different items with one composite key have both
\* returned, one with success and one with ConditionalCheckFailed
C1_Witness ==
    \E p \in Callers, q \in Callers :
        /\ pc[p] = "done" /\ pc[q] = "done"
        /\ req[p].op = "put_item" /\ req[q].op = "put_item"
        /\ req[p].item # req[q].item
        /\ HasKey(store, req[p]) /\ HasKey(store, req[q])
        /\ KeyOf(store, req[p]) = KeyOf(store, req[q])
        /\ res[p] = Ok(None)
        /\ res[q] = ConditionalCheckFailed

\* the callers of the race whose create_table for table name t has returned
ReturnedCreates(t) ==
    {p \in Callers : /\ pc[p] = "done" /\ Returned(p)
                     /\ req[p].op = "create_table"
                     /\ req[p].table_name = t}

\* C5 (race): of the create_table calls racing on one table name that does not
\* exist, exactly one succeeds and every other fails with ResourceInUse; the
\* table has the schema of the successful call.
C5_OneRacingCreateWins ==
    \A t \in {"orders", "users"} :
        ReturnedCreates(t) # {}
        => \E w \in ReturnedCreates(t) :
               /\ res[w] = Ok(None)
               /\ \A q \in ReturnedCreates(t) \ {w} : res[q] = ResourceInUse
               /\ t \in DOMAIN store
               /\ store[t].schema = req[w].key_schema

\* C5 witness: two calls with different schemas have returned; the table has
\* the schema of the one that succeeded
C5_Witness ==
    \E w \in Callers, q \in Callers :
        /\ pc[w] = "done" /\ pc[q] = "done"
        /\ req[w] = CreateReq("orders", SchemaIdSk)
        /\ req[q] = CreateReq("orders", SchemaId)
        /\ res[w] = Ok(None)
        /\ res[q] = ResourceInUse
        /\ store["orders"].schema = SchemaIdSk

\* the request's condition expression evaluates to false on the catalog st
ConditionFalse(st, r) ==
    /\ IsSome(r.condition_expression)
    /\ HasKey(st, r)
    /\ evaluate_condition_expression(Unwrap(r.condition_expression), StoredAt(st, r),
                                     r.expression_attribute_values) = "false"

\* C2: a put_item whose condition evaluates to false fails with
\* ConditionalCheckFailed and leaves the whole catalog (every table, every key,
\* the item stored at the put's key included) exactly as it was.
C2_FailedConditionLeavesCatalog ==
    \A p \in Callers :
        AtReturn(p) /\ req[p].op = "put_item" /\ ConditionFalse(pre[p], req[p])
        => /\ store = pre[p]
           /\ Returned(p) => res[p] = ConditionalCheckFailed

\* C2 witness: over a stored {id:A,total:5}, the put {id:A,total:9} with
\* attribute_not_exists(id) failed, and a get of {id:A} still yields total 5
C2_Witness ==
    \E p \in Callers :
        /\ AtReturn(p)
        /\ req[p] = PutReq("orders", ItemA9, Some(CondNotExistsId), OrderXY)
        /\ res[p] = ConditionalCheckFailed
        /\ GetItemBody(pre[p], GetReq("orders", KeyA, OrderXY)) = Ok(Some(ItemA5))
        /\ GetItemBody(store, GetReq("orders", KeyA, OrderXY)) = Ok(Some(ItemA5))
\* the key fragment gives every key schema attribute of the table the value
\* the item has for it
SameKeyAttributes(schema, key, item) ==
    \A i \in 1..Len(schema) :
        /\ schema[i] \in DOMAIN key
        /\ schema[i] \in DOMAIN item
        /\ key[schema[i]] = item[schema[i]]

\* C3: round trip: after a successful put_item(I), I holding every key schema
\* attribute, and no later write to that key (that is, while I is the item the
\* table stores), a get_item with I's key attributes returns an item equal to I.
\* It fails for a map-typed key attribute: the get's map instance may iterate
\* in another order than the put's, and then derives another composite key.
C3_PutThenGetReturnsItem ==
    \A p \in Callers :
        /\ AtReturn(p) /\ Returned(p)
        /\ req[p].op = "get_item"
        /\ req[p].table_name \in DOMAIN pre[p]
        => LET table == pre[p][req[p].table_name]
           IN  \A k \in DOMAIN table.items :
                   SameKeyAttributes(table.schema, req[p].item, table.items[k])
                   => res[p] = Ok(Some(table.items[k]))

AttrNames == {id, sk, total}

\* the request's condition is attribute_not_exists(k), k a key schema attribute
\* of the request's table in st
NotExistsOnKeyAttr(st, r) ==
    /\ r.table_name \in DOMAIN st
    /\ IsSome(r.condition_expression)
    /\ \E i \in 1..Len(st[r.table_name].schema) :
           Unwrap(r.condition_expression)
               = NOT_EXISTS_MARK \o st[r.table_name].schema[i] \o CLOSE_PAREN

\* C4: a put conditioned on attribute_not_exists(k), k a key schema attribute,
\* succeeds if and only if no item occupies the put item's composite key, and
\* otherwise fails with ConditionalCheckFailed; either way the key is occupied
\* afterwards, so an identical second put fails.
C4_NotExistsPutIffKeyFree ==
    \A p \in Callers :
        /\ AtReturn(p) /\ Returned(p)
        /\ req[p].op = "put_item"
        /\ NotExistsOnKeyAttr(pre[p], req[p])
        /\ HasKey(pre[p], req[p])
        => /\ res[p] = Ok(None) <=> ~IsSome(StoredAt(pre[p], req[p]))
           /\ res[p] # Ok(None) => res[p] = ConditionalCheckFailed
           /\ IsSome(StoredAt(store, req[p]))

\* C4 witness: the identical second put, over the item the first one stored,
\* failed with ConditionalCheckFailed (on a sort-key attribute)
C4_Witness ==
    \E p \in Callers :
        /\ AtReturn(p)
        /\ req[p] = PutReq("orders", ItemAc, Some(CondNotExistsSk), OrderXY)
        /\ HasKey(pre[p], req[p])
        /\ pre[p]["orders"].schema = SchemaIdSk
        /\ StoredAt(pre[p], req[p]) = Some(ItemAc)
        /\ res[p] = ConditionalCheckFailed

\* C6: create_table on a name that already exists fails with ResourceInUse and
\* leaves the catalog unchanged: the table keeps its schema and its items.
C6_CreateExistingLeavesCatalog ==
    \A p \in Callers :
        /\ AtReturn(p)
        /\ req[p].op = "create_table"
        /\ req[p].table_name \in DOMAIN pre[p]
        => /\ store = pre[p]
           /\ Returned(p) => res[p] = ResourceInUse

\* C6 witness: the second call supplied another key schema, over a table that
\* holds an item
C6_Witness ==
    \E p \in Callers :
        /\ AtReturn(p)
        /\ req[p] = CreateReq("orders", SchemaIdSk)
        /\ res[p] = ResourceInUse
        /\ store["orders"].schema = SchemaId
        /\ store["orders"].items # <<>>

\* C7: get_item and put_item against a table name that is not in the catalog
\* fail with ResourceNotFound, and neither create the table nor change any
\* state.
C7_MissingTableNotFound ==
    \A p \in Callers :
        /\ AtReturn(p)
        /\ req[p].op \in {"get_item", "put_item"}
        /\ req[p].table_name \notin DOMAIN pre[p]
        => /\ store = pre[p]
           /\ Returned(p) => res[p] = ResourceNotFound

\* C7 witness: a put on the freshly constructed, empty catalog
C7_Witness ==
    \E p \in Callers :
        /\ AtReturn(p)
        /\ req[p].op = "put_item"
        /\ pre[p] = <<>>
        /\ store = <<>>
        /\ res[p] = ResourceNotFound

\* C8: get_item on an existing table with no item stored at the derived key
\* returns a successful response carrying no item.
C8_GetAbsentItemIsEmptySuccess ==
    \A p \in Callers :
        /\ AtReturn(p) /\ Returned(p)
        /\ req[p].op = "get_item"
        /\ HasKey(pre[p], req[p])
        /\ ~IsSome(StoredAt(pre[p], req[p]))
        => res[p] = Ok(None)

\* C8 witness: a get on a table that holds other items, but none at the key
C8_Witness ==
    \E p \in Callers :
        /\ AtReturn(p)
        /\ req[p].op = "get_item"
        /\ HasKey(pre[p], req[p])
        /\ pre[p][req[p].table_name].items # <<>>
        /\ ~IsSome(StoredAt(pre[p], req[p]))
        /\ res[p] = Ok(None)

\* the request's condition is 'attribute_not_exists(a) AND attribute_not_exists(b)'
NotExistsPair(r, a, b) ==
    r.condition_expression
        = Some(NOT_EXISTS_MARK \o a \o CLOSE_PAREN \o AND_SEP
                   \o NOT_EXISTS_MARK \o b \o CLOSE_PAREN)

\* C9: a put conditioned on 'attribute_not_exists(a) AND attribute_not_exists(b)'
\* fails with ConditionalCheckFailed whenever the item stored at the key has a
\* or has b, and succeeds when no item is stored at the key.
C9_ConjunctionOfNotExists ==
    \A p \in Callers : \A a \in AttrNames, b \in AttrNames :
        /\ AtReturn(p) /\ Returned(p)
        /\ req[p].op = "put_item"
        /\ NotExistsPair(req[p], a, b)
        /\ HasKey(pre[p], req[p])
        => LET current == StoredAt(pre[p], req[p])
           IN  /\ IsSome(current) /\ {a, b} \cap DOMAIN Unwrap(current) # {}
                   => res[p] = ConditionalCheckFailed
               /\ ~IsSome(current) => res[p] = Ok(None)

\* C9 witness: the stored item lacks the first attribute and has the second
C9_Witness ==
    \E p \in Callers :
        /\ AtReturn(p)
        /\ req[p].op = "put_item"
        /\ NotExistsPair(req[p], total, sk)
        /\ HasKey(pre[p], req[p])
        /\ IsSome(StoredAt(pre[p], req[p]))
        /\ total \notin DOMAIN Unwrap(StoredAt(pre[p], req[p]))
        /\ sk \in DOMAIN Unwrap(StoredAt(pre[p], req[p]))
        /\ res[p] = ConditionalCheckFailed

\* the outcome and the catalog of the request r run alone, start to end, on
\* the catalog st
Serial(st, psn, r) ==
    LET Out(result, after) == [res |-> result, store |-> after]
    IN  IF psn THEN Out(Panic, st)
        ELSE IF r.op = "get_item" THEN Out(GetItemBody(st, r), st)
        ELSE IF r.op = "put_item" THEN
            IF PutItemCheck(st, r) # NoResult THEN Out(PutItemCheck(st, r), st)
            ELSE IF IsSome(PutItemInsert(st, r))
                 THEN Out(Ok(None), Unwrap(PutItemInsert(st, r)))
                 ELSE Out(Panic, st)
        ELSE IF EntryVacant(st, r.table_name) THEN Out(Ok(None), VacantInsert(st, r))
        ELSE IF r.op = "create_table" THEN Out(ResourceInUse, st)
        ELSE Out(Panic, st)

\* C10: every operation holds the one catalog lock for its whole duration: at
\* most one call is inside its critical section, nothing changes the catalog
\* between a call's lookup, its condition evaluation and its insert, and every
\* call ends with the outcome and the catalog of running alone on the catalog it
\* found, so an execution equals the serial order in which the lock was taken.
C10_OperationsAreAtomic ==
    /\ \A p \in Callers, q \in Callers :
           InCriticalSection(p) /\ InCriticalSection(q) => p = q
    /\ \A p \in Callers : InCriticalSection(p) <=> lock = p
    /\ \A p \in Callers : pc[p] \in {"body", "insert"} => store = pre[p]
    /\ \A p \in Callers :
           AtReturn(p) => /\ res[p] = Serial(pre[p], poisoned, req[p]).res
                          /\ store = Serial(pre[p], poisoned, req[p]).store

\* C10 witness: a conditional put stands between its condition check and its
\* insert, holding the lock, with every other caller outside
C10_Witness ==
    \E p \in Callers :
        /\ pc[p] = "insert"
        /\ req[p].op = "put_item"
        /\ IsSome(req[p].condition_expression)
        /\ IsSome(StoredAt(pre[p], req[p]))
        /\ lock = p
        /\ \A q \in Callers \ {p} : pc[q] = "idle"

\* the callers whose put conditioned on 'total = :old' has ended
CasPuts == {p \in Callers : pc[p] = "done" /\ req[p] \in CasRequests}

\* C11 (compare-and-swap): of the concurrent puts to one key, each conditioned
\* on 'total = :old' with :old the total stored when they start and each
\* writing another total, at most one succeeds and every other fails with
\* ConditionalCheckFailed; the stored item is the one the successful put wrote.
C11_CompareAndSwap ==
    /\ Cardinality({p \in CasPuts : res[p] = Ok(None)}) <= 1
    /\ \A p \in CasPuts :
           /\ res[p] \in {Ok(None), ConditionalCheckFailed}
           /\ res[p] = Ok(None) => StoredAt(store, req[p]) = Some(req[p].item)

\* C11 witness: two puts writing totals 9 and 7 over the stored total 5 have
\* ended, the one with success and the other with ConditionalCheckFailed
C11_Witness ==
    \E p \in CasPuts, q \in CasPuts :
        /\ req[p].item # req[q].item
        /\ res[p] = Ok(None)
        /\ res[q] = ConditionalCheckFailed
        /\ StoredAt(store, req[p]) = Some(req[p].item)

C13_TwoCreationPaths ==
    \A p \in Callers :
        AtReturn(p) /\ req[p].op \in {"create_table", "create_table_direct"}
        => LET t == req[p].table_name
           IN  IF t \in DOMAIN pre[p]
               THEN /\ store = pre[p]
                    /\ ~poisoned =>
                           res[p] = IF req[p].op = "create_table_direct"
                                    THEN Panic ELSE ResourceInUse
               ELSE ~poisoned =>
                        /\ res[p] = Ok(None)
                        /\ DOMAIN store = DOMAIN pre[p] \cup {t}
                        /\ store[t] = TableStore(req[p].key_schema, <<>>)
                        /\ \A u \in DOMAIN pre[p] : store[u] = pre[p][u]

\* C13 witness: the helper, called with another schema for a table that holds
\* an item, has panicked and the table is as it was
C13_Witness ==
    \E p \in Callers :
        /\ AtReturn(p)
        /\ ~poisoned
        /\ req[p] = DirectCreateReq("orders", SchemaIdSk)
        /\ res[p] = Panic
        /\ store = pre[p]
        /\ store["orders"].schema = SchemaId
        /\ store["orders"].items # <<>>

\* C14: ResourceNotFound, ResourceInUse and ConditionalCheckFailed are values
\* a call returns, not crashes: when a call that produced one of them ends, the
\* lock is free, the mutex is not poisoned and the catalog is the one the call
\* found, so what any later call meets is what it would have met had the failed
\* call not been made.
C14_ErrorsAreRecoverable ==
    [][\A p \in Callers :
           /\ pc[p] = "ret" /\ pc'[p] # "ret"
           /\ res[p] \in {ResourceNotFound, ResourceInUse, ConditionalCheckFailed}
           => /\ store' = pre[p]
              /\ lock' = 0
              /\ poisoned' = poisoned
              /\ ~poisoned']_vars

\* C14 witness: a put over a stored item has failed its condition and is about
\* to release the lock
C14_Witness ==
    \E p \in Callers :
        /\ AtReturn(p)
        /\ lock = p
        /\ res[p] = ConditionalCheckFailed
        /\ HasKey(pre[p], req[p])
        /\ IsSome(StoredAt(pre[p], req[p]))
        /\ ENABLED Unlock(p)

\* the request's item lacks a key schema attribute of the request's table in st
LacksKeyAttribute(st, r) ==
    /\ r.table_name \in DOMAIN st
    /\ \E i \in 1..Len(st[r.table_name].schema) :
           st[r.table_name].schema[i] \notin DOMAIN r.item

\* C15: a put_item whose item, or a get_item whose key, lacks a key schema
\* attribute of the table never succeeds: no item is stored, none is returned,
\* the call does not return Ok and the catalog is as it was.
C15_MissingKeyAttributeRejected ==
    \A p \in Callers :
        /\ AtReturn(p)
        /\ req[p].op \in {"put_item", "get_item"}
        /\ LacksKeyAttribute(pre[p], req[p])
        => /\ store = pre[p]
           /\ res[p].kind # "Ok"
           /\ res[p].item = None

\* C15 witness: an unconditional put of an item without the attribute id, on a
\* table keyed by id that holds an item, has been rejected
C15_Witness ==
    \E p \in Callers :
        /\ AtReturn(p)
        /\ ~poisoned
        /\ req[p] = PutReq("orders", ItemNoId, None, OrderXY)
        /\ LacksKeyAttribute(pre[p], req[p])
        /\ pre[p]["orders"].items # <<>>
        /\ res[p] = Panic
        /\ store = pre[p]

\* the handles other than q through which a put of an item with the key
\* attributes of q's request has succeeded
WritersFor(q) ==
    {p \in Callers \ {q} :
        /\ pc[p] = "done" /\ req[p].op = "put_item" /\ res[p] = Ok(None)
        /\ req[p].table_name = req[q].table_name
        /\ \A a \in DOMAIN req[q].item :
               a \in DOMAIN req[p].item /\ req[p].item[a] = req[q].item[a]}

\* C16: all handles to the backend reach one store.  A get_item through one
\* handle, made after puts to its key have succeeded through other handles,
\* returns an item one of them committed; and a table created through one
\* handle is, with its schema, in the catalog every handle reaches.
C16_HandlesShareOneStore ==
    /\ \A q \in Callers :
           AtReturn(q) /\ req[q].op = "get_item" /\ WritersFor(q) # {}
           => \E p \in WritersFor(q) : res[q] = Ok(Some(req[p].item))
    /\ \A p \in Callers :
           pc[p] = "done" /\ req[p].op = "create_table" /\ res[p] = Ok(None)
           => \A q \in Callers :
                  /\ req[p].table_name \in DOMAIN self_store(q)
                  /\ self_store(q)[req[p].table_name].schema = req[p].key_schema

\* C16 witness: the table was created through one handle, the item put through
\* a second, and a get through a third has returned the item
C16_Witness ==
    \E c \in Callers, p \in Callers, q \in Callers :
        /\ c # p /\ p # q /\ c # q
        /\ pc[c] = "done" /\ req[c].op = "create_table" /\ res[c] = Ok(None)
        /\ p \in WritersFor(q)
        /\ AtReturn(q)
        /\ req[q] = GetReq("orders", KeyA, OrderXY)
        /\ res[q] = Ok(Some(req[p].item))

\* the two items have equal values for every attribute of the key schema
EqualKeyValues(schema, i1, i2) ==
    \A n \in 1..Len(schema) :
        /\ schema[n] \in DOMAIN i1 /\ schema[n] \in DOMAIN i2
        /\ i1[schema[n]] = i2[schema[n]]

\* items with equal key attribute values are one stored item: no table holds
\* two of them, and a put over one of them does not make the table grow
EqualKeysAreOneItem ==
    /\ \A t \in DOMAIN store : \A k1, k2 \in DOMAIN store[t].items :
           EqualKeyValues(store[t].schema, store[t].items[k1], store[t].items[k2])
           => k1 = k2
    /\ \A p \in Callers :
           /\ AtReturn(p) /\ req[p].op = "put_item" /\ res[p] = Ok(None)
           /\ \E k \in DOMAIN pre[p][req[p].table_name].items :
                  EqualKeyValues(pre[p][req[p].table_name].schema,
                                 pre[p][req[p].table_name].items[k], req[p].item)
           => Cardinality(DOMAIN store[req[p].table_name].items)
                  = Cardinality(DOMAIN pre[p][req[p].table_name].items)

\* a successful put leaves in place every stored item that differs from the
\* put item in the value of some key attribute, and stores the put item
DistinctKeysAreDistinctItems ==
    \A p \in Callers :
        AtReturn(p) /\ req[p].op = "put_item" /\ res[p] = Ok(None)
        => LET before == pre[p][req[p].table_name]
               after == store[req[p].table_name]
           IN  /\ \A k \in DOMAIN before.items :
                      ~EqualKeyValues(before.schema, before.items[k], req[p].item)
                      => k \in DOMAIN after.items /\ after.items[k] = before.items[k]
               /\ \E k \in DOMAIN after.items : after.items[k] = req[p].item

\* partition and sort values whose concatenated texts coincide
KeyTexts == {<<"a">>, <<"a", "b">>, <<"b", "c">>, <<"c">>}
PairItem(x, y) == id :> S(x) @@ sk :> S(y)

\* under a two-attribute schema distinct (partition, sort) pairs have distinct
\* composite keys
PairsDoNotCollide ==
    \A x1 \in KeyTexts, y1 \in KeyTexts, x2 \in KeyTexts, y2 \in KeyTexts :
        <<x1, y1>> # <<x2, y2>>
        => key_from_item(TableStore(SchemaIdSk, <<>>), PairItem(x1, y1), OrderXY)
               # key_from_item(TableStore(SchemaIdSk, <<>>), PairItem(x2, y2), OrderXY)

\* C17: key identity.  Within a table, two puts whose items have equal values
\* for every key schema attribute address one stored item (the second replaces
\* the first, the table does not grow); two puts whose items differ in a key
\* attribute value are stored as two items; and under a two-attribute schema
\* distinct (partition, sort) pairs never share a composite key, ("ab","c") and
\* ("a","bc") included.  The first part fails for a map-typed key attribute:
\* two map instances with equal entries may iterate in different orders and
\* then have different composite keys.
C17_KeyIdentity ==
    /\ PairsDoNotCollide
    /\ DistinctKeysAreDistinctItems
    /\ EqualKeysAreOneItem

\* C18: a put_item without a condition expression, on an existing table and
\* with every key attribute in the item, succeeds (on an unpoisoned mutex) and
\* replaces the item at that key: the stored item is then exactly the new item,
\* with none of the attributes that only the old item had.
C18_UnconditionalPutReplaces ==
    \A p \in Callers :
        /\ AtReturn(p) /\ ~poisoned
        /\ req[p].op = "put_item"
        /\ ~IsSome(req[p].condition_expression)
        /\ HasKey(pre[p], req[p])
        => /\ res[p] = Ok(None)
           /\ StoredAt(store, req[p]) = Some(req[p].item)

\* C18 witness: {id:A,total:5} was put over the stored {id:A,sk:c}; the stored
\* item has no sk any more
C18_Witness ==
    \E p \in Callers :
        /\ AtReturn(p)
        /\ req[p] = PutReq("orders", ItemA5, None, OrderXY)
        /\ HasKey(pre[p], req[p])
        /\ StoredAt(pre[p], req[p]) = Some(ItemAc)
        /\ res[p] = Ok(None)
        /\ StoredAt(store, req[p]) = Some(ItemA5)
        /\ sk \notin DOMAIN Unwrap(StoredAt(store, req[p]))

\* C19: the condition of a put is evaluated against the item stored at the
\* derived key (absent if none), never against the incoming item: a put
\* conditioned on attribute_exists(a) succeeds exactly when an item is stored at
\* the key and has a, and one conditioned on attribute_not_exists(a) exactly
\* when none is stored or the stored one lacks a, whatever the incoming item
\* carries; otherwise the put fails with ConditionalCheckFailed.
C19_ConditionReadsStoredItem ==
    \A p \in Callers : \A a \in AttrNames :
        /\ AtReturn(p) /\ Returned(p)
        /\ req[p].op = "put_item"
        /\ HasKey(pre[p], req[p])
        => LET current == StoredAt(pre[p], req[p])
               has == IsSome(current) /\ a \in DOMAIN Unwrap(current)
               cond == req[p].condition_expression
           IN  /\ cond = Some(EXISTS_MARK \o a \o CLOSE_PAREN)
                   => res[p] = IF has THEN Ok(None) ELSE ConditionalCheckFailed
               /\ cond = Some(NOT_EXISTS_MARK \o a \o CLOSE_PAREN)
                   => res[p] = IF has THEN ConditionalCheckFailed ELSE Ok(None)

\* C19 witness: over a stored item without total, a put of an item that
\* carries total, conditioned on attribute_not_exists(total), has succeeded
C19_Witness ==
    \E p \in Callers :
        /\ AtReturn(p)
        /\ req[p] = PutReq("orders", ItemA5, Some(CondNotExistsTotal), OrderXY)
        /\ HasKey(pre[p], req[p])
        /\ StoredAt(pre[p], req[p]) = Some(ItemAc)
        /\ res[p] = Ok(None)

\* C20: an expression made of sub-expressions joined by ' AND ' (none of them
\* containing ' OR ') evaluates to true if and only if every sub-expression
\* evaluates to true against the same item and placeholder values, for two
\* conjuncts and for more.
C20_Conjunction ==
    pc[1] = "evaluated" /\ req[1].shape = "and" /\ Len(req[1].parts) >= 2
    => /\ contains(req[1].expression, AND_SEP)
       /\ ~contains(req[1].expression, OR_SEP)
       /\ res[1] = "true"
              <=> \A i \in 1..Len(req[1].parts) :
                      evaluate_condition_expression(req[1].parts[i], req[1].item,
                                                    req[1].values) = "true"

\* C20 witness: three conjuncts, the first two true of the item and the third
\* false, evaluated to false
C20_Witness ==
    /\ pc[1] = "evaluated"
    /\ req[1].shape = "and"
    /\ req[1].parts = <<CondExistsTotal, CondTotalEqOld, CondNotExistsId>>
    /\ req[1].item = Some(ItemA5)
    /\ req[1].values = Some(OldIs5)
    /\ res[1] = "false"

\* the evaluation has returned a value (it panics when it reaches a function
\* call without its closing parenthesis)
Evaluated == pc[1] = "evaluated" /\ res[1] \in {"true", "false"}

\* the i-th predicate of the input is true of the input's item and values
PartTrue(i) ==
    evaluate_condition_expression(req[1].parts[i], req[1].item, req[1].values) = "true"

\* C21: an expression made of sub-expressions joined by ' OR ' (none of them
\* containing ' AND ') evaluates to true if and only if at least one
\* sub-expression evaluates to true against the same item and placeholder
\* values.
C21_Disjunction ==
    Evaluated /\ req[1].shape = "or"
    => /\ contains(req[1].expression, OR_SEP)
       /\ ~contains(req[1].expression, AND_SEP)
       /\ res[1] = "true" <=> \E i \in 1..Len(req[1].parts) : PartTrue(i)

\* C21 witness: three disjuncts, the first two false of the item and the
\* third true, evaluated to true
C21_Witness ==
    /\ Evaluated
    /\ req[1].shape = "or"
    /\ req[1].parts = <<CondNotExistsId, <<"x">>, CondExistsTotal>>
    /\ req[1].item = Some(ItemA5)
    /\ res[1] = "true"

\* C22: with both connectives in one expression the conjunction is applied
\* first: 'A OR B AND C' evaluates as (A OR B) AND C and 'A AND B OR C' as
\* A AND (B OR C), for all truth values of A, B and C.
C22_ConjunctionFirst ==
    /\ Evaluated /\ req[1].shape = "or_and"
           => (res[1] = "true" <=> (PartTrue(1) \/ PartTrue(2)) /\ PartTrue(3))
    /\ Evaluated /\ req[1].shape = "and_or"
           => (res[1] = "true" <=> PartTrue(1) /\ (PartTrue(2) \/ PartTrue(3)))

\* C22 witness: A OR B AND C with A true and C false evaluated to false
C22_Witness ==
    /\ Evaluated
    /\ req[1].shape = "or_and"
    /\ PartTrue(1) /\ ~PartTrue(2) /\ ~PartTrue(3)
    /\ req[1].parts[3] = CondNotExistsId
    /\ req[1].item = Some(ItemA5)
    /\ res[1] = "false"

\* the input is the one predicate mark(a), blanks around it aside
IsCallOn(mark, a) ==
    /\ req[1].shape = "and"
    /\ Len(req[1].parts) = 1
    /\ trim(req[1].parts[1]) = mark \o a \o CLOSE_PAREN

\* the input's current item exists and has attribute a
ItemHas(a) == IsSome(req[1].item) /\ a \in DOMAIN Unwrap(req[1].item)

\* C23: attribute_not_exists(a) evaluates to true if and only if there is no
\* current item or the current item lacks a, for key and non-key attributes
\* and with or without placeholder values.
C23_AttributeNotExists ==
    \A a \in AttrNames :
        pc[1] = "evaluated" /\ IsCallOn(NOT_EXISTS_MARK, a)
        => (res[1] = "true" <=> ~ItemHas(a)) /\ res[1] \in {"true", "false"}

\* C23 witness: attribute_not_exists on the non-key attribute total, with
\* placeholder values supplied, was false of an item that has total
C23_Witness ==
    /\ pc[1] = "evaluated"
    /\ IsCallOn(NOT_EXISTS_MARK, total)
    /\ req[1].item = Some(ItemA5)
    /\ req[1].values = Some(OldIs5)
    /\ res[1] = "false"

\* C24: attribute_exists(a) evaluates to true if and only if a current item
\* exists and has a; it is false when there is no item, and for every item and
\* attribute it is the negation of attribute_not_exists(a).
C24_AttributeExists ==
    \A a \in AttrNames :
        pc[1] = "evaluated" /\ IsCallOn(EXISTS_MARK, a)
        => /\ res[1] \in {"true", "false"}
           /\ res[1] = "true" <=> ItemHas(a)
           /\ ~IsSome(req[1].item) => res[1] = "false"
           /\ res[1] = "true"
                  <=> evaluate_condition_expression(
                          NOT_EXISTS_MARK \o a \o CLOSE_PAREN, req[1].item,
                          req[1].values) = "false"

\* C24 witness: attribute_exists(id) was false with no current item
C24_Witness ==
    /\ pc[1] = "evaluated"
    /\ IsCallOn(EXISTS_MARK, id)
    /\ req[1].item = None
    /\ res[1] = "false"

\* C25: the equality 'total = :old' is true if and only if an item is stored at
\* the key, placeholder values are supplied, the item has total, the values
\* have :old, and the two attribute values agree in type tag and in content
\* (the string "5" is not the number 5): a put conditioned on it succeeds in
\* that case and fails with ConditionalCheckFailed in every other, so always
\* when the key is unoccupied.
C25_Equality ==
    \A p \in Callers :
        /\ AtReturn(p) /\ Returned(p)
        /\ req[p].op = "put_item"
        /\ req[p].condition_expression = Some(CondTotalEqOld)
        /\ HasKey(pre[p], req[p])
        => LET current == StoredAt(pre[p], req[p])
               values == req[p].expression_attribute_values
               equal ==
                   /\ IsSome(current) /\ IsSome(values)
                   /\ total \in DOMAIN Unwrap(current)
                   /\ old \in DOMAIN Unwrap(values)
                   /\ Unwrap(current)[total].tag = Unwrap(values)[old].tag
                   /\ Unwrap(current)[total].val = Unwrap(values)[old].val
           IN  /\ res[p] = IF equal THEN Ok(None) ELSE ConditionalCheckFailed
               /\ ~IsSome(current) => res[p] = ConditionalCheckFailed

\* C25 witness: over a stored total of number 5, the put with :old given as
\* the string "5" has failed
C25_Witness ==
    \E p \in Callers :
        /\ AtReturn(p)
        /\ req[p].op = "put_item"
        /\ req[p].condition_expression = Some(CondTotalEqOld)
        /\ req[p].expression_attribute_values = Some(OldIsString5)
        /\ HasKey(pre[p], req[p])
        /\ StoredAt(pre[p], req[p]) = Some(ItemA5)
        /\ res[p] = ConditionalCheckFailed

\* the expression has none of the forms the evaluator recognises: it holds
\* neither connective, neither function-call marker and no ' = '
Unrecognised(expression) ==
    /\ ~contains(expression, AND_SEP)
    /\ ~contains(expression, OR_SEP)
    /\ ~contains(expression, NOT_EXISTS_MARK)
    /\ ~contains(expression, EXISTS_MARK)
    /\ ~contains(expression, EQ_MARK)

\* C26 (fail-closed): a condition expression that is no conjunction, no
\* disjunction, no attribute_not_exists or attribute_exists call and no
\* equality (the empty expression, a bare attribute name, another comparison)
\* evaluates to false whatever is stored: the put fails with
\* ConditionalCheckFailed and the catalog is as it was.
C26_FailClosed ==
    \A p \in Callers :
        /\ AtReturn(p)
        /\ req[p].op = "put_item"
        /\ IsSome(req[p].condition_expression)
        /\ Unrecognised(Unwrap(req[p].condition_expression))
        /\ HasKey(pre[p], req[p])
        => /\ store = pre[p]
           /\ Returned(p) => res[p] = ConditionalCheckFailed
           /\ evaluate_condition_expression(
                  Unwrap(req[p].condition_expression), StoredAt(pre[p], req[p]),
                  req[p].expression_attribute_values) = "false"

\* C26 witness: the put of total 9 conditioned on 'total > :old', :old = 5,
\* over a stored total of 5, has failed and the stored item is as it was
C26_Witness ==
    \E p \in Callers :
        /\ AtReturn(p)
        /\ req[p].condition_expression = Some(CondTotalGreaterOld)
        /\ HasKey(pre[p], req[p])
        /\ StoredAt(pre[p], req[p]) = Some(ItemA5)
        /\ res[p] = ConditionalCheckFailed
        /\ StoredAt(store, req[p]) = Some(ItemA5)

\* C27: put_item resolves the table before anything else: against a table name
\* that is not in the catalog it fails with ResourceNotFound (on an unpoisoned
\* mutex), whatever its condition expression is (true or false of no item,
\* unrecognised, without closing parenthesis) and whether or not its item has
\* the key attributes; it does not report ConditionalCheckFailed and changes
\* nothing.
C27_TableResolvedFirst ==
    \A p \in Callers :
        /\ AtReturn(p)
        /\ req[p].op = "put_item"
        /\ req[p].table_name \notin DOMAIN pre[p]
        => /\ store = pre[p]
           /\ res[p] # ConditionalCheckFailed
           /\ ~poisoned => res[p] = ResourceNotFound

\* C27 witness: a put of an item without id, whose condition has no closing
\* parenthesis, has ended with ResourceNotFound on a catalog that holds
\* another table only
C27_Witness ==
    \E p \in Callers :
        /\ AtReturn(p)
        /\ ~poisoned
        /\ req[p] = PutReq("orders", ItemNoId, Some(CondUnclosed), OrderXY)
        /\ "orders" \notin DOMAIN pre[p]
        /\ "users" \in DOMAIN pre[p]
        /\ res[p] = ResourceNotFound

\* C28: a table's key schema is fixed at creation: no step, of any call on
\* this or another table and whatever its outcome, removes the table or changes
\* its schema, and a table that appears has the ordered attribute-name list of
\* the call that creates it.
C28_SchemaFixedAtCreation ==
    [][/\ \A t \in DOMAIN store :
              t \in DOMAIN store' /\ store'[t].schema = store[t].schema
       /\ \A t \in DOMAIN store' \ DOMAIN store :
              \E p \in Callers :
                  /\ pc[p] = "insert"
                  /\ req[p].op \in {"create_table", "create_table_direct"}
                  /\ req[p].table_name = t
                  /\ store'[t].schema = req[p].key_schema]_vars

\* C28 witness: a table created with schema (id, sk) holds an item, a second
\* table exists, and a create_table giving the schema (id) has just failed
C28_Witness ==
    \E p \in Callers :
        /\ AtReturn(p)
        /\ req[p] = CreateReq("orders", SchemaId)
        /\ res[p] = ResourceInUse
        /\ "users" \in DOMAIN store
        /\ store["orders"].schema = SchemaIdSk
        /\ store["orders"].items # <<>>

\* every stored item has every key schema attribute of its table and is
\* stored under the composite key derived from it (the key its own map
\* instances yield)
StoredUnderOwnKey ==
    \A t \in DOMAIN store : \A k \in DOMAIN store[t].items :
        LET item == store[t].items[k]
        IN  /\ \A i \in 1..Len(store[t].schema) : store[t].schema[i] \in DOMAIN item
            /\ \E o \in OrdersOf(item) : key_from_item(store[t], item, o) = Some(k)

\* no table holds two items with equal values for every key schema attribute
NoTwoItemsWithEqualKeyValues ==
    \A t \in DOMAIN store : \A k1, k2 \in DOMAIN store[t].items :
        EqualKeyValues(store[t].schema, store[t].items[k1], store[t].items[k2])
        => k1 = k2

\* C29 (storage invariant): in every reachable state each stored item has
\* every key schema attribute of its table and is stored under the composite
\* key derived from its own key attribute values, so that no table holds two
\* items with the same key attribute values.  The last part fails for a
\* map-typed key attribute, whose composite key depends on the iteration order
\* of the map instance.
C29_StorageInvariant ==
    /\ StoredUnderOwnKey
    /\ NoTwoItemsWithEqualKeyValues

\* the (table, key) pairs occupied in the catalog st
Occupied(st) == UNION {{<<t, k>> : k \in DOMAIN st[t].items} : t \in DOMAIN st}

\* C30: the catalog only grows: no step removes a table or frees a key, so a
\* table name that exists and a key that is occupied stay so in every later
\* state, and a step adds at most one table or at most one item, not both.
C30_CatalogOnlyGrows ==
    [][/\ DOMAIN store \subseteq DOMAIN store'
       /\ Occupied(store) \subseteq Occupied(store')
       /\ Cardinality(DOMAIN store' \ DOMAIN store)
              + Cardinality(Occupied(store') \ Occupied(store)) <= 1]_vars

\* C30 witness: the catalog has grown to two tables, one of them with two
\* items and the other with one
C30_Witness ==
    /\ DOMAIN store = {"orders", "users"}
    /\ Cardinality(DOMAIN store["orders"].items) >= 2
    /\ store["users"].items # <<>>

\* between the catalogs a and b only the entry at key k of table t may differ
SameButEntry(a, b, t, k) ==
    /\ DOMAIN b = DOMAIN a
    /\ \A u \in DOMAIN a : u # t => b[u] = a[u]
    /\ b[t].schema = a[t].schema
    /\ DOMAIN a[t].items \subseteq DOMAIN b[t].items
    /\ DOMAIN b[t].items \subseteq DOMAIN a[t].items \cup {k}
    /\ \A j \in DOMAIN a[t].items : j # k => b[t].items[j] = a[t].items[j]

\* the catalog b is the catalog a and one more table t, which is empty
SameButNewTable(a, b, t) ==
    /\ t \notin DOMAIN a
    /\ DOMAIN b = DOMAIN a \cup {t}
    /\ \A u \in DOMAIN a : b[u] = a[u]
    /\ b[t].items = <<>>

\* C31 (frame): when a get_item ends, however it ends, the catalog is the one
\* the call found.  When a put_item ends with success, the catalog differs
\* from the one it found at most in the entry at the key derived from its
\* item, in the table it names: every other key of that table, every other
\* table and every schema are as they were.  When a create_table ends with
\* success, the catalog is the one it found and one more table, empty; every
\* table that existed is as it was.
C31_Frame ==
    \A p \in Callers :
        AtReturn(p) =>
            /\ req[p].op = "get_item" => store = pre[p]
            /\ req[p].op = "put_item" /\ res[p].kind = "Ok"
               => /\ HasKey(pre[p], req[p])
                  /\ SameButEntry(pre[p], store, req[p].table_name,
                                  KeyOf(pre[p], req[p]))
            /\ req[p].op \in {"create_table", "create_table_direct"}
               /\ res[p].kind = "Ok"
               => SameButNewTable(pre[p], store, req[p].table_name)

\* C31 witness: a put has succeeded on a table that held an item at another
\* key, with a second table in the catalog that holds an item too
C31_Witness ==
    \E p \in Callers :
        /\ AtReturn(p)
        /\ req[p].op = "put_item"
        /\ res[p].kind = "Ok"
        /\ store # pre[p]
        /\ DOMAIN pre[p] = {"orders", "users"}
        /\ pre[p][IF req[p].table_name = "orders" THEN "users" ELSE "orders"].items
               # <<>>
        /\ HasKey(pre[p], req[p])
        /\ \E j \in DOMAIN pre[p][req[p].table_name].items :
               j # KeyOf(pre[p], req[p])

\* caller p has invoked a call that is not over
Invoked(p) == req[p] # NoRequest

\* caller p has invoked a call and waits for the mutex
Waiting(p) == pc[p] = "idle" /\ Invoked(p)

\* one step of the locking discipline: the mutex is taken only when it is
\* free, and only by a waiting caller; a caller is inside its call body
\* exactly while it holds the guard; a call ends only by dropping the guard,
\* which frees the mutex, whatever the call returns
LockDiscipline ==
    /\ \A p \in Callers : InCriticalSection(p) <=> lock = p
    /\ \A p \in Callers :
           lock' = p /\ lock # p => lock = 0 /\ Waiting(p)
    /\ \A p \in Callers :
           Invoked(p) /\ ~Invoked(p)'
           => /\ AtReturn(p) /\ lock = p /\ lock' = 0
              /\ Returned(p) => poisoned' = poisoned

WireFacing == {"get_item", "put_item", "create_table"}

\* C33 (the store stays usable): a wire-facing call made on a usable store,
\* whatever its input, ends with a success or a declared error kind, and
\* leaves the store usable: when it ends the mutex is free and not
\* poisoned, so a later call of any caller can take the lock.  This fails:
\* a put_item or get_item whose item or key lacks a key schema attribute, and
\* a put_item whose condition has a call without closing parenthesis, panic
\* with the guard held; the mutex is poisoned and every later call panics
\* at lock().unwrap().
C33_StoreStaysUsable ==
    [][\A p \in Callers :
           req[p].op \in WireFacing /\ ~poisoned
           => /\ AtReturn(p) => Returned(p)
              /\ AtReturn(p) /\ ~AtReturn(p)' => lock' = 0 /\ ~poisoned']_vars
====
